---------------------------- MODULE Spec2Model ----------------------------
(***************************************************************************)
(* A model of easycpp::List (src/List/List.h): a heterogeneous list kept   *)
(* as two parallel vectors, `data` (std::vector<std::any>) and `types`     *)
(* (std::vector<const std::type_info*>).                                   *)
(*                                                                         *)
(* A std::any is modelled as a record [ty, val]: ty is the dynamic type of *)
(* the held object ("none" for an any that holds nothing) and val is the   *)
(* held value.  A type_info pointer is modelled by the type's name.        *)
(* Indices are 0-based as in the source; TLA+ sequences are 1-based, so    *)
(* data[i] of the source is data[i + 1] here.                              *)
(***************************************************************************)
EXTENDS Integers, Sequences, FiniteSets, TLC

VARIABLES data, types, last, fs, fobj, fcall, strs, sfault

\* The List: its two vectors and the call just made on it.
listVars == <<data, types, last>>

\* The file wrapper (FileOperator.h, src/unnamed/part_002): the attributes of
\* the one path the model opens, the File object and the call just made.
fileVars == <<fs, fobj, fcall>>

\* The String objects (src/String/String.h) and whether the program has
\* died of an undefined access.
strVars == <<strs, sfault>>

vars == <<listVars, fileVars, strVars>>

(***************************************************************************)
(* Bounds of the model.                                                    *)
(***************************************************************************)
MaxLen == 2

(***************************************************************************)
(* Values.                                                                 *)
(***************************************************************************)
EmptyAny == [ty |-> "none", val |-> 0]

MkInt(n) == [ty |-> "int", val |-> n]

MkDouble(n) == [ty |-> "double", val |-> n]

MkString(s) == [ty |-> "string", val |-> s]

\* The values callers pass to the templated operations (append<T>, insert<T>,
\* remove<T>, index<T>, count<T>): T is the value's static type.
TypedVals == {MkInt(5), MkInt(7), MkDouble(5), MkString("five")}

\* The std::any objects callers hand over as such: to append<std::any> and to
\* an assignment through operator[].
RawVals == {EmptyAny, MkInt(5)}

\* The types T a caller names in get<T>.
GetTypes == {"int", "double", "string"}

\* The separators passed to join.
Separators == {","}

\* The exception types the source throws.
NoError == "none"

OutOfRange == "std::out_of_range"

InvalidArgument == "std::invalid_argument"

BadAnyCast == "std::bad_any_cast"

MsgEmpty == "List is empty, cannot pop."

MsgIndex == "Index out of range"

MsgNotFound == "Value not found"

\* std::optional<size_t>: std::nullopt is modelled as -1.
NullOpt == 0 - 1

(***************************************************************************)
(* std::vector and <algorithm> helpers, 0-based positions.                 *)
(***************************************************************************)
\* vector::insert(begin() + pos, x)
VecInsert(s, pos, x) == SubSeq(s, 1, pos) \o <<x>> \o SubSeq(s, pos + 1, Len(s))

\* vector::erase(begin() + pos)
VecErase(s, pos) == SubSeq(s, 1, pos) \o SubSeq(s, pos + 2, Len(s))

\* std::reverse(begin(), end())
StdReverse(s) == [k \in 1..Len(s) |-> s[Len(s) + 1 - k]]

\* std::any_cast<T>(&a) != nullptr
AnyCastPtr(a, T) == a.ty = T

\* std::any::has_value()
HasValue(a) == a.ty # "none"

(***************************************************************************)
(* The list as a value: [data, types].                                     *)
(***************************************************************************)
This == [data |-> data, types |-> types]

\* List(const List& other) : data(other.data), types(other.types)
CopyList(other) == [data |-> other.data, types |-> other.types]

\* size()
Size(L) == Len(L.data)

\* append<T>(value): any(value) holds a T, except that for T = std::any the
\* any is copied as it is (any's copy constructor), whatever it holds.
AppendList(L, T, a) ==
    [data |-> Append(L.data, a), types |-> Append(L.types, T)]

\* extend(other)
ExtendList(L, other) ==
    [data |-> L.data \o other.data, types |-> L.types \o other.types]

\* insert<T>(index, value) that clamps an index past the end to the end.
InsertListClamped(L, index, T, a) ==
    LET at == IF index <= Len(L.data) THEN index ELSE Len(L.data)
    IN [data |-> VecInsert(L.data, at, a), types |-> VecInsert(L.types, at, T)]

\* insert<T>(index, value)
InsertList(L, index, T, a) ==
    IF index <= Len(L.data)
    THEN [data |-> VecInsert(L.data, index, a),
          types |-> VecInsert(L.types, index, T)]
    ELSE L

\* The std::find_if of remove<T>: the first position whose any holds a T
\* equal to value, or size() (end()) when there is none.
FindIf(s, T, value) ==
    LET hits == {i \in 0..(Len(s) - 1) :
                    AnyCastPtr(s[i + 1], T) /\ s[i + 1].val = value.val}
    IN IF hits = {} THEN Len(s)
       ELSE CHOOSE i \in hits : \A j \in hits : i <= j

\* remove<T>(value) that erases the first discriminator, not the one at `it`.
RemoveListFirstType(L, T, value) ==
    LET it == FindIf(L.data, T, value)
    IN IF it # Len(L.data)
       THEN [data |-> VecErase(L.data, it), types |-> VecErase(L.types, 0)]
       ELSE L

\* remove<T>(value)
RemoveList(L, T, value) ==
    LET it == FindIf(L.data, T, value)
    IN IF it # Len(L.data)
       THEN [data |-> VecErase(L.data, it), types |-> VecErase(L.types, it)]
       ELSE L

\* pop(index): the list afterwards, the returned any and the exception thrown.
PopResult(L, ix, value, e, m) ==
    [list |-> L, index |-> ix, ret |-> value, err |-> e, msg |-> m]

\* pop(index) that ignores a given index and always takes the last slot.
PopListLast(L, index) ==
    IF Len(L.data) = 0
    THEN PopResult(L, index, EmptyAny, OutOfRange,
                   IF index = NullOpt THEN MsgEmpty ELSE MsgIndex)
    ELSE LET ix == Len(L.data) - 1
         IN PopResult([data |-> VecErase(L.data, ix),
                       types |-> VecErase(L.types, ix)],
                      ix, L.data[ix + 1], NoError, "")

\* pop(index) that tests for the empty list before it looks at the index.
PopListEmptyFirst(L, index) ==
    IF Len(L.data) = 0
    THEN PopResult(L, index, EmptyAny, OutOfRange, MsgEmpty)
    ELSE LET ix == IF index = NullOpt THEN Len(L.data) - 1 ELSE index
         IN IF ix < Len(L.data)
            THEN PopResult([data |-> VecErase(L.data, ix),
                            types |-> VecErase(L.types, ix)],
                           ix, L.data[ix + 1], NoError, "")
            ELSE PopResult(L, ix, EmptyAny, OutOfRange, MsgIndex)

PopList(L, index) ==
    IF index = NullOpt /\ Len(L.data) = 0
    THEN PopResult(L, index, EmptyAny, OutOfRange, MsgEmpty)
    ELSE LET ix == IF index = NullOpt THEN Len(L.data) - 1 ELSE index
         IN IF ix < Len(L.data)
            THEN PopResult([data |-> VecErase(L.data, ix),
                            types |-> VecErase(L.types, ix)],
                           ix, L.data[ix + 1], NoError, "")
            ELSE PopResult(L, ix, EmptyAny, OutOfRange, MsgIndex)

\* clear()
ClearList(L) == [data |-> <<>>, types |-> <<>>]

\* reverse() that reverses the values only.
ReverseListDataOnly(L) == [data |-> StdReverse(L.data), types |-> L.types]

\* reverse()
ReverseList(L) == [data |-> StdReverse(L.data), types |-> StdReverse(L.types)]

\* operator[](index) used to assign: only data[index] is written.
SetItemList(L, index, a) == [L EXCEPT !.data[index + 1] = a]

\* The test index<T> and count<T> make on slot i.
SlotMatches(L, i, T, value) ==
    /\ L.types[i + 1] = T
    /\ AnyCastPtr(L.data[i + 1], T)
    /\ L.data[i + 1].val = value.val

\* index<T>(value, start) that scans from 0 whatever start is.
IndexOfNoStart(L, T, value, start) ==
    LET hits == {i \in 0..(Len(L.data) - 1) : SlotMatches(L, i, T, value)}
    IN IF hits = {}
       THEN [ret |-> Len(L.data), err |-> InvalidArgument, msg |-> MsgNotFound]
       ELSE [ret |-> CHOOSE i \in hits : \A j \in hits : i <= j,
             err |-> NoError, msg |-> ""]

\* index<T>(value, start): the position found, or size() with the exception.
IndexOf(L, T, value, start) ==
    LET hits == {i \in start..(Len(L.data) - 1) : SlotMatches(L, i, T, value)}
    IN IF hits = {}
       THEN [ret |-> Len(L.data), err |-> InvalidArgument, msg |-> MsgNotFound]
       ELSE [ret |-> CHOOSE i \in hits : \A j \in hits : i <= j,
             err |-> NoError, msg |-> ""]

\* count<T>(value) that tests the stored value only, not the discriminator.
CountOfAnyCastOnly(L, T, value) ==
    Cardinality({i \in 0..(Len(L.data) - 1) :
                    AnyCastPtr(L.data[i + 1], T) /\ L.data[i + 1].val = value.val})

\* count<T>(value)
CountOf(L, T, value) ==
    Cardinality({i \in 0..(Len(L.data) - 1) : SlotMatches(L, i, T, value)})

\* get<T>(index)
GetItem(L, T, index) ==
    IF index < Len(L.data) /\ L.types[index + 1] = T
    THEN IF AnyCastPtr(L.data[index + 1], T)
         THEN [ret |-> L.data[index + 1], err |-> NoError]
         ELSE [ret |-> EmptyAny, err |-> BadAnyCast]
    ELSE [ret |-> EmptyAny, err |-> BadAnyCast]

(***************************************************************************)
(* Text rendering (join).                                                  *)
(***************************************************************************)
DigitChars == <<"0", "1", "2", "3", "4", "5", "6", "7", "8", "9">>

\* std::to_string(int), for the non-negative values of the model
RECURSIVE IntToString(_)
IntToString(n) ==
    IF n < 10 THEN DigitChars[n + 1]
    ELSE IntToString(n \div 10) \o DigitChars[(n % 10) + 1]

\* std::to_string(double) prints "%f": six decimals.  The doubles of the
\* model are whole numbers.
DoubleToString(n) == IntToString(n) \o ".000000"

\* std::to_string((long long)&data[i]): the address of slot i, kept symbolic.
AddressOf(i) == "&data[" \o IntToString(i) \o "]"

\* One pass of join's loop body for slot i on the text built so far.
JoinSlot(L, separator, i, result) ==
    LET r == IF i > 0 THEN result \o separator ELSE result
        a == L.data[i + 1]
        T == L.types[i + 1]
    IN IF HasValue(a)
       THEN IF T = "int"
            THEN IF AnyCastPtr(a, "int")
                 THEN [ret |-> r \o IntToString(a.val), err |-> NoError]
                 ELSE [ret |-> r, err |-> BadAnyCast]
            ELSE IF T = "double"
            THEN IF AnyCastPtr(a, "double")
                 THEN [ret |-> r \o DoubleToString(a.val), err |-> NoError]
                 ELSE [ret |-> r, err |-> BadAnyCast]
            ELSE IF T = "string"
            THEN IF AnyCastPtr(a, "string")
                 THEN [ret |-> r \o a.val, err |-> NoError]
                 ELSE [ret |-> r, err |-> BadAnyCast]
            ELSE [ret |-> r \o "(" \o T \o " at " \o AddressOf(i) \o ")",
                  err |-> NoError]
       ELSE [ret |-> "", err |-> NoError]

\* join's loop from slot i on.
RECURSIVE JoinFrom(_, _, _, _)
JoinFrom(L, separator, i, result) ==
    IF i >= Len(L.data) THEN [ret |-> result, err |-> NoError]
    ELSE LET step == JoinSlot(L, separator, i, result)
         IN IF step.err # NoError THEN [ret |-> "", err |-> step.err]
            ELSE JoinFrom(L, separator, i + 1, step.ret)

\* join(separator)
Join(L, separator) == JoinFrom(L, separator, 0, "")

(***************************************************************************)
(* The state machine.  `last` records the call just made: its name, its    *)
(* arguments, what it returned and what it threw.                          *)
(***************************************************************************)
Called(op, T, a, index, retv, retn, rets, e, m) ==
    [op |-> op, T |-> T, arg |-> a, index |-> index,
     retv |-> retv, retn |-> retn, rets |-> rets, err |-> e, msg |-> m]

\* The (T, value) pairs of the templated calls: a typed value with its static
\* type, or a std::any passed as T = std::any.
TemplateArgs ==
    {<<v.ty, v>> : v \in TypedVals} \cup {<<"std::any", a>> : a \in RawVals}

\* The lists passed to extend.
OtherLists ==
    {[data |-> <<>>, types |-> <<>>],
     [data |-> <<MkInt(5)>>, types |-> <<"int">>],
     [data |-> <<MkString("five"), MkDouble(5)>>,
      types |-> <<"string", "double">>],
     CopyList(This)}

Store(L) == data' = L.data /\ types' = L.types

\* The call returns (or throws): `last` records it.  A call on the list
\* touches neither the file wrapper nor the strings.
Returns(c) == last' = c /\ UNCHANGED <<fileVars, strVars>>

\* access() on the path: a path that does not exist is neither readable nor
\* writable.
FsStates ==
    {a \in [exists : BOOLEAN, readable : BOOLEAN, writable : BOOLEAN] :
        ~a.exists => (~a.readable /\ ~a.writable)}

FsMissing == [exists |-> FALSE, readable |-> FALSE, writable |-> FALSE]

\* No File object yet.  Of a File: `file` is the FILE* member, isopen whether
\* the native handle behind it is open, fcloses the number of fclose calls
\* made on it, and ub whether fclose was called on a handle already closed.
NoFile ==
    [state |-> "none", file |-> "NULL", isopen |-> FALSE,
     fcloses |-> 0, ub |-> FALSE]

FileCalled(op, method, e, native, nerr, ret) ==
    [op |-> op, method |-> method, err |-> e, native |-> native,
     nerr |-> nerr, ret |-> ret]

NoFileCall == FileCalled("none", "", NoError, FALSE, 0, 0)

\* The terminator of a character array.
NUL == "NUL"

\* A char*: the null pointer, or a pointer to a character array.
NullPtr == [null |-> TRUE, buf |-> <<>>]

Ptr(buf) == [null |-> FALSE, buf |-> buf]

\* A C string: a pointer to the characters followed by the terminator.
CStr(chars) == Ptr(chars \o <<NUL>>)

\* std::strlen(p): the number of characters before the first terminator.
StrLen(p) ==
    (CHOOSE k \in 1..Len(p.buf) :
        p.buf[k] = NUL /\ \A j \in 1..(k - 1) : p.buf[j] # NUL) - 1

\* std::strcpy(new char[...], p): the array written, terminator included.
StrCpy(p) == Ptr(SubSeq(p.buf, 1, StrLen(p) + 1))

\* String(const char* str)
StringFromC(str) ==
    IF str.null
    THEN [data |-> Ptr(<<NUL>>), length |-> 0]
    ELSE [data |-> StrCpy(str), length |-> StrLen(str)]

\* The String objects the program holds.
StringIds == {1, 2}

\* The List, the path, the File and the Strings before anything is called.
ListStart ==
    /\ data = <<>>
    /\ types = <<>>
    /\ last = Called("List", "", EmptyAny, 0, EmptyAny, 0, "", NoError, "")

FileStart == fobj = NoFile /\ fcall = NoFileCall

StringStart == strs = [i \in StringIds |-> StringFromC(CStr(<<>>))] /\ sfault = FALSE

\* List()
Init == ListStart /\ fs = FsMissing /\ FileStart /\ StringStart

copy ==
    /\ Store(CopyList(This))
    /\ Returns(Called("copy", "", EmptyAny, 0, EmptyAny, 0, "", NoError, ""))

append ==
    \E p \in TemplateArgs :
        /\ Len(data) < MaxLen
        /\ Store(AppendList(This, p[1], p[2]))
        /\ Returns(Called("append", p[1], p[2], 0, EmptyAny, 0, "", NoError, ""))

extend ==
    \E other \in OtherLists :
        /\ Len(data) + Len(other.data) <= MaxLen
        /\ Store(ExtendList(This, other))
        /\ Returns(Called("extend", "", EmptyAny, Len(other.data),
                          EmptyAny, 0, "", NoError, ""))

insert ==
    \E p \in TemplateArgs, index \in 0..(MaxLen + 1) :
        /\ Len(data) < MaxLen
        /\ Store(InsertList(This, index, p[1], p[2]))
        /\ Returns(Called("insert", p[1], p[2], index,
                          EmptyAny, 0, "", NoError, ""))

remove ==
    \E v \in TypedVals :
        /\ Store(RemoveList(This, v.ty, v))
        /\ Returns(Called("remove", v.ty, v, FindIf(data, v.ty, v),
                          EmptyAny, 0, "", NoError, ""))

pop ==
    \E index \in {NullOpt} \cup 0..MaxLen :
        LET r == PopList(This, index)
        IN /\ Store(r.list)
           /\ Returns(Called("pop", "", EmptyAny, index,
                             r.ret, 0, "", r.err, r.msg))

clear ==
    /\ Store(ClearList(This))
    /\ Returns(Called("clear", "", EmptyAny, 0, EmptyAny, 0, "", NoError, ""))

reverse ==
    /\ Store(ReverseList(This))
    /\ Returns(Called("reverse", "", EmptyAny, 0, EmptyAny, 0, "", NoError, ""))

\* list[index] = a.  An index >= size() is undefined behaviour of
\* vector::operator[] and is not a call the model makes.
setitem ==
    \E index \in 0..(Len(data) - 1), a \in RawVals :
        /\ Store(SetItemList(This, index, a))
        /\ Returns(Called("setitem", "", a, index, EmptyAny, 0, "", NoError, ""))

index ==
    \E v \in TypedVals, start \in 0..(MaxLen + 1) :
        LET r == IndexOf(This, v.ty, v, start)
        IN /\ UNCHANGED <<data, types>>
           /\ Returns(Called("index", v.ty, v, start,
                             EmptyAny, r.ret, "", r.err, r.msg))

count ==
    \E v \in TypedVals :
        /\ UNCHANGED <<data, types>>
        /\ Returns(Called("count", v.ty, v, 0,
                          EmptyAny, CountOf(This, v.ty, v), "", NoError, ""))

get ==
    \E T \in GetTypes, i \in 0..MaxLen :
        LET r == GetItem(This, T, i)
        IN /\ UNCHANGED <<data, types>>
           /\ Returns(Called("get", T, EmptyAny, i, r.ret, 0, "", r.err, ""))

join ==
    \E separator \in Separators :
        LET r == Join(This, separator)
        IN /\ UNCHANGED <<data, types>>
           /\ Returns(Called("join", "", MkString(separator), 0,
                             EmptyAny, 0, r.ret, r.err, ""))

Next ==
    \/ copy
    \/ append
    \/ extend
    \/ insert
    \/ remove
    \/ pop
    \/ clear
    \/ reverse
    \/ setitem
    \/ index
    \/ count
    \/ get
    \/ join

Spec == Init /\ [][Next]_vars

(***************************************************************************)
(* The file wrapper: easycpp::open and class File.                         *)
(***************************************************************************)
\* The mode strings: READ, READ_E, WRITE, WRITE_E, APPEND, APPEND_E, and
\* "rb", a mode string open() is given as it is.
READ == "r"

READ_E == "r+"

Modes == {READ, READ_E, "w", "w+", "a", "a+", "rb"}

\* What a mode string asks of fopen_s.
ModeNeedsFile(method) == method \in {"r", "r+", "rb"}

ModeReads(method) == method \in {"r", "r+", "rb", "w+", "a+"}

ModeWrites(method) == method \in {"r+", "w", "w+", "a", "a+"}

\* The exceptions of the file wrapper.
FileNotExistError == "FileNotExistError"

FilePermissionError == "FilePermissionError"

FileUnknownError == "FileUnknownError"

\* is_exist(filename): access(filename, F_OK) == 0
IsExist(fsys) == fsys.exists

\* check_permission(filename): access(filename, R_OK | W_OK) == 0
CheckPermission(fsys) == fsys.exists /\ fsys.readable /\ fsys.writable

\* fopen_s(&_file, filename, method): the errno_t it returns, 0 for success.
\* envFail is a failure the path's attributes do not explain (no handle left,
\* a sharing violation, a directory that cannot be written).
FopenS(fsys, method, envFail) ==
    IF envFail THEN 24
    ELSE IF ~fsys.exists
    THEN (IF ModeNeedsFile(method) THEN 2 ELSE 0)
    ELSE IF (ModeReads(method) /\ ~fsys.readable)
              \/ (ModeWrites(method) /\ ~fsys.writable)
    THEN 13
    ELSE 0

\* The path after a successful fopen_s: a missing file is created.
AfterOpen(fsys) ==
    IF fsys.exists THEN fsys
    ELSE [exists |-> TRUE, readable |-> TRUE, writable |-> TRUE]

\* File(FILE* file, const char* filename) on a handle fopen_s just opened
NewFile ==
    [state |-> "alive", file |-> "fp", isopen |-> TRUE,
     fcloses |-> 0, ub |-> FALSE]

OpenResult(e, native, nerr, f, fsys) ==
    [err |-> e, native |-> native, nerr |-> nerr, file |-> f, fs |-> fsys]

\* open(filename, method) that makes no check before the native open.
OpenFileNoPrecheck(fsys, method, envFail) ==
    LET nerr == FopenS(fsys, method, envFail)
    IN IF nerr # 0
       THEN OpenResult(FileUnknownError, TRUE, nerr, NoFile, fsys)
       ELSE OpenResult(NoError, TRUE, 0, NewFile, AfterOpen(fsys))

\* open(filename, method): the exception thrown, whether fopen_s was called
\* and what it returned, the File made and the path afterwards.
OpenFile(fsys, method, envFail) ==
    IF (method = READ \/ method = READ_E) /\ ~IsExist(fsys)
    THEN OpenResult(FileNotExistError, FALSE, 0, NoFile, fsys)
    ELSE IF (method = READ \/ method = READ_E) /\ ~CheckPermission(fsys)
    THEN OpenResult(FilePermissionError, FALSE, 0, NoFile, fsys)
    ELSE LET nerr == FopenS(fsys, method, envFail)
         IN IF nerr # 0
            THEN OpenResult(FileUnknownError, TRUE, nerr, NoFile, fsys)
            ELSE OpenResult(NoError, TRUE, 0, NewFile, AfterOpen(fsys))

\* fclose(file).  On a handle already closed the call is undefined: the
\* model counts it and marks the object.
Fclose(f) ==
    IF f.isopen
    THEN [f EXCEPT !.isopen = FALSE, !.fcloses = @ + 1]
    ELSE [f EXCEPT !.fcloses = @ + 1, !.ub = TRUE]

\* What fclose may return: 0 on an open handle, anything on a closed one.
FcloseReturns(f) == IF f.isopen THEN {0} ELSE {0, 0 - 1}

\* File::close(): return fclose(file); the member `file` is left as it is.
FileClose(f) == Fclose(f)

\* File::~File(): if (file) fclose(file);
FileDestroy(f) ==
    LET g == IF f.file # "NULL" THEN Fclose(f) ELSE f
    IN [g EXCEPT !.state = "destroyed"]

\* The number of close() calls the model makes on one File.
MaxCloses == 2

FileInit == ListStart /\ StringStart /\ FileStart /\ fs \in FsStates

\* open(): one File is followed at a time.
openFile ==
    \E method \in Modes, envFail \in BOOLEAN :
        LET r == OpenFile(fs, method, envFail)
        IN /\ fobj.state # "alive"
           /\ fs' = r.fs
           /\ fobj' = (IF r.err = NoError THEN r.file ELSE fobj)
           /\ fcall' = FileCalled("open", method, r.err, r.native, r.nerr, 0)
           /\ UNCHANGED <<listVars, strVars>>

closeFile ==
    \E ret \in FcloseReturns(fobj) :
        /\ fobj.state = "alive"
        /\ fobj.fcloses < MaxCloses
        /\ fobj' = FileClose(fobj)
        /\ fcall' = FileCalled("close", "", NoError, FALSE, 0, ret)
        /\ UNCHANGED <<fs, listVars, strVars>>

destroyFile ==
    /\ fobj.state = "alive"
    /\ fobj' = FileDestroy(fobj)
    /\ fcall' = FileCalled("delete", "", NoError, FALSE, 0, 0)
    /\ UNCHANGED <<fs, listVars, strVars>>

FileNext ==
    \/ openFile
    \/ closeFile
    \/ destroyFile

SpecFile == FileInit /\ [][FileNext]_vars

(***************************************************************************)
(* class String.  An operation that reads through a null `data` is         *)
(* undefined: its outcomes are the program dying (Fault) and the read      *)
(* finding an empty C string at the null address.                          *)
(***************************************************************************)
\* The longest String the model builds with operator+.
MaxStrLen == 3

\* The C strings callers construct a String from.
CStrings == {NullPtr, CStr(<<>>), CStr(<<"a">>), CStr(<<"a", "B">>)}

Fault == [data |-> NullPtr, length |-> 0 - 1]

\* What a read of the C string at p finds.
ReadCStr(p) == IF p.null THEN {NullPtr, CStr(<<>>)} ELSE {p}

\* std::toupper, std::tolower on the characters of the model
ToUpper(c) == IF c = "a" THEN "A" ELSE IF c = "b" THEN "B" ELSE c

ToLower(c) == IF c = "A" THEN "a" ELSE IF c = "B" THEN "b" ELSE c

\* String()
StringDefault == [data |-> NullPtr, length |-> 0]

\* String(const String& other): the Strings it may make.
StringCopy(other) ==
    {IF src.null THEN Fault
     ELSE [data |-> StrCpy(src), length |-> other.length] :
        src \in ReadCStr(other.data)}

\* operator=(const String& other); self is whether this == &other.
StringAssign(this, other, self) ==
    IF self THEN {this} ELSE StringCopy(other)

\* upper(): a copy whose first `length` characters are upper-cased.
StringUpper(this) ==
    {IF r = Fault THEN Fault
     ELSE [r EXCEPT !.data.buf =
              [k \in 1..Len(@) |-> IF k <= r.length THEN ToUpper(@[k]) ELSE @[k]]] :
        r \in StringCopy(this)}

\* lower()
StringLower(this) ==
    {IF r = Fault THEN Fault
     ELSE [r EXCEPT !.data.buf =
              [k \in 1..Len(@) |-> IF k <= r.length THEN ToLower(@[k]) ELSE @[k]]] :
        r \in StringCopy(this)}

\* operator+(const String& other): strcpy, strcat into newData, then
\* String(newData).
StringPlus(this, other) ==
    {IF a.null \/ b.null THEN Fault
     ELSE StringFromC(Ptr(SubSeq(a.buf, 1, StrLen(a)) \o
                          SubSeq(b.buf, 1, StrLen(b) + 1))) :
        a \in ReadCStr(this.data), b \in ReadCStr(other.data)}

\* The program goes on with the String made, or has died.
Made(i, r) ==
    /\ ~sfault
    /\ IF r = Fault
       THEN sfault' = TRUE /\ strs' = strs
       ELSE sfault' = FALSE /\ strs' = [strs EXCEPT ![i] = r]
    /\ UNCHANGED <<listVars, fileVars>>

StringInit == ListStart /\ fs = FsMissing /\ FileStart /\ StringStart

stringDefault ==
    \E i \in StringIds :
        /\ ~sfault
        /\ Made(i, StringDefault)

stringFromC ==
    \E i \in StringIds, str \in CStrings :
        /\ ~sfault
        /\ Made(i, StringFromC(str))

stringCopy ==
    \E i \in StringIds, j \in StringIds :
        /\ i # j
        /\ \E r \in StringCopy(strs[j]) : Made(i, r)

stringAssign ==
    \E i \in StringIds, j \in StringIds :
        \E r \in StringAssign(strs[i], strs[j], i = j) : Made(i, r)

stringUpper ==
    \E i \in StringIds, j \in StringIds :
        \E r \in StringUpper(strs[j]) : Made(i, r)

stringLower ==
    \E i \in StringIds, j \in StringIds :
        \E r \in StringLower(strs[j]) : Made(i, r)

stringPlus ==
    \E i \in StringIds, j \in StringIds, k \in StringIds :
        /\ strs[j].length + strs[k].length <= MaxStrLen
        /\ \E r \in StringPlus(strs[j], strs[k]) : Made(i, r)

StringNext ==
    \/ stringDefault
    \/ stringFromC
    \/ stringCopy
    \/ stringAssign
    \/ stringUpper
    \/ stringLower
    \/ stringPlus

SpecString == StringInit /\ [][StringNext]_vars

(***************************************************************************)
(* Properties.  In an action formula the unprimed variables are the list   *)
(* before the call and last' is the call made by the step.                 *)
(***************************************************************************)
ThisNext == [data |-> data', types |-> types']

\* The list as one sequence of (value, discriminator) slots.
Slots(L) == [k \in 1..Len(L.data) |-> <<L.data[k], L.types[k]>>]

\* The smallest element of a non-empty set of positions.
MinOf(S) == CHOOSE i \in S : \A j \in S : i <= j

IsQuery(op) == op \in {"index", "count", "get", "join"}

\* C1, per call: what the call does to the sequence of slots.
LockstepStep ==
    /\ Len(data') = Len(types')
    /\ Len(data) = Len(types)
    /\ LET Z == Slots(This)
           Zn == Slots(ThisNext)
           c == last'
       IN /\ c.op = "append" => Zn = Append(Z, <<c.arg, c.T>>)
          /\ c.op = "insert" =>
                IF c.index <= Len(Z)
                THEN Zn = VecInsert(Z, c.index, <<c.arg, c.T>>)
                ELSE Zn = Z
          /\ c.op = "extend" =>
                /\ Len(Zn) = Len(Z) + c.index
                /\ SubSeq(Zn, 1, Len(Z)) = Z
          /\ c.op = "remove" =>
                \/ Zn = Z
                \/ \E pos \in 0..(Len(Z) - 1) :
                      /\ Z[pos + 1][1] = c.arg
                      /\ Zn = VecErase(Z, pos)
          /\ c.op = "pop" =>
                IF c.err = NoError
                THEN \E pos \in 0..(Len(Z) - 1) :
                        /\ Z[pos + 1][1] = c.retv
                        /\ Zn = VecErase(Z, pos)
                ELSE Zn = Z
          /\ c.op = "clear" => Zn = <<>>
          /\ c.op = "reverse" =>
                /\ Len(Zn) = Len(Z)
                /\ \A k \in 1..Len(Z) : Zn[k] = Z[Len(Z) + 1 - k]
          /\ c.op = "copy" => Zn = Z
          /\ c.op = "setitem" =>
                /\ Len(Zn) = Len(Z)
                /\ \A k \in 1..Len(Z) :
                      k # c.index + 1 => Zn[k] = Z[k]
          /\ IsQuery(c.op) => Zn = Z

\* C1: after any sequence of append, extend, insert, remove, pop, clear,
\* reverse and copy-construction the value sequence and the discriminator
\* sequence have the same length, and every call that moves, adds or deletes
\* a value at a position moves, adds or deletes the discriminator at that
\* same position: the call acts on the sequence of (value, discriminator)
\* slots as one insertion, deletion, concatenation or reversal.
C1_Lockstep == [](Len(data) = Len(types)) /\ [][LockstepStep]_vars

\* A remove has deleted the first of two slots (last.index is the position
\* its find_if found), the slot left behind having another discriminator.
C1_Witness ==
    /\ last.op = "remove"
    /\ last.index = 0
    /\ Len(data) = 1
    /\ Len(types) = 1
    /\ types[1] # last.T
    /\ data[1] # last.arg

\* C2, per call: pop on a valid index (no index: the last one).
PopStep ==
    LET c == last'
        n == Len(data)
        i == IF c.index = NullOpt THEN n - 1 ELSE c.index
    IN (c.op = "pop" /\ 0 <= i /\ i < n) =>
          /\ c.err = NoError
          /\ c.retv = data[i + 1]
          /\ Len(data') = n - 1
          /\ Len(types') = n - 1
          /\ \A j \in 0..(i - 1) :
                data'[j + 1] = data[j + 1] /\ types'[j + 1] = types[j + 1]
          /\ \A j \in (i + 1)..(n - 1) :
                data'[j] = data[j + 1] /\ types'[j] = types[j + 1]

\* C2: for every index i with 0 <= i < size(), pop(i) returns the value that
\* was at position i, removes exactly that slot (value and discriminator),
\* leaves the slots before i unchanged, moves every slot at j > i to j - 1 and
\* decreases size() by one; pop() with no index behaves as pop(size() - 1).
C2_Pop == [][PopStep]_vars

\* pop(0) has taken the first of two different slots.
C2_Witness ==
    /\ last.op = "pop"
    /\ last.index = 0
    /\ last.err = NoError
    /\ Len(data) = 1
    /\ data[1] # last.retv

\* C3 as stated: pop() on an empty list and pop(i) with i >= size() fail
\* with two distinguishable error kinds (EmptyCollection, IndexOutOfRange).
\* Here the list is empty after a failed pop(): pop(0) on it must fail with
\* another kind of error than pop() just did.
C3_Original ==
    (last.op = "pop" /\ last.index = NullOpt /\ last.err # NoError) =>
        /\ PopList(This, 0).err # NoError
        /\ PopList(This, 0).err # last.err

\* C3, per call: the failures of pop.
PopFailStep ==
    LET c == last'
        n == Len(data)
    IN /\ (c.op = "pop" /\ c.index = NullOpt /\ n = 0) =>
              /\ c.err = OutOfRange
              /\ c.msg = MsgEmpty
              /\ UNCHANGED <<data, types>>
       /\ (c.op = "pop" /\ c.index # NullOpt /\ c.index >= n) =>
              /\ c.err = OutOfRange
              /\ c.msg = MsgIndex
              /\ UNCHANGED <<data, types>>

\* C3, amended: pop() with no index on an empty list and pop(i) with an
\* explicit index i >= size() (including pop(0) on an empty list) both fail
\* with the same error kind, std::out_of_range, and leave the list unchanged;
\* the two failures differ only in their message.
C3_PopFails == (MsgEmpty # MsgIndex) /\ [][PopFailStep]_vars

\* pop(0) has failed on an empty list.
C3_Witness ==
    /\ last.op = "pop"
    /\ last.index = 0
    /\ last.err = OutOfRange
    /\ last.msg = MsgIndex
    /\ Len(data) = 0

\* C4 as stated: get<T>(index) fails with TypeMismatch (std::bad_any_cast)
\* when index is valid and the discriminator at index differs from T, fails
\* with another error kind (IndexOutOfRange) when index >= size(), and
\* otherwise returns the stored value.
C4_Original ==
    last.op = "get" =>
        LET i == last.index
        IN IF i >= Len(data)
           THEN last.err \notin {NoError, BadAnyCast}
           ELSE IF types[i + 1] # last.T
           THEN last.err = BadAnyCast
           ELSE last.err = NoError /\ last.retv = data[i + 1]

\* The text join is said to return for a list none of whose slots is empty.
RECURSIVE Rendered(_, _, _)
Rendered(L, separator, n) ==
    IF n = 0 THEN ""
    ELSE LET a == L.data[n]
             T == L.types[n]
             text == IF T = "int" THEN IntToString(a.val)
                     ELSE IF T = "double" THEN DoubleToString(a.val)
                     ELSE IF T = "string" THEN a.val
                     ELSE "(" \o T \o " at " \o AddressOf(n - 1) \o ")"
         IN IF n = 1 THEN text
            ELSE Rendered(L, separator, n - 1) \o separator \o text

\* C5 as stated: join(separator) returns the empty text whenever at least one
\* slot holds no value, wherever that slot is, and otherwise the slots'
\* renderings in order, interleaved with separator.  (A join that throws,
\* which it does on a slot whose value is not of the discriminator's type,
\* is left out: the statement here is the claim for the joins that return.)
C5_Original ==
    (last.op = "join" /\ last.err = NoError) =>
        IF \E k \in 1..Len(data) : ~HasValue(data[k])
        THEN last.rets = ""
        ELSE last.rets = Rendered(This, last.arg.val, Len(data))

\* The positions >= start whose discriminator is the type of v and whose
\* stored value is v itself (a value of that type, equal to v).
MatchesFrom(L, v, start) ==
    {i \in start..(Len(L.data) - 1) : L.types[i + 1] = v.ty /\ L.data[i + 1] = v}

\* C6: index(v, start) for a value v of type T returns the smallest i with
\* start <= i < size() such that slot i's discriminator is T and its value
\* equals v, so the result is never less than start; when there is no such i
\* (including start >= size()) it fails with NotFound (std::invalid_argument).
C6_Index ==
    last.op = "index" =>
        LET hits == MatchesFrom(This, last.arg, last.index)
        IN IF hits = {}
           THEN last.err = InvalidArgument
           ELSE /\ last.err = NoError
                /\ last.retn = MinOf(hits)
                /\ last.retn >= last.index

\* index(v, 1) has returned 1 on a list whose slot 0 matches v as well.
C6_Witness ==
    /\ last.op = "index"
    /\ last.index = 1
    /\ last.err = NoError
    /\ last.retn = 1
    /\ Len(data) = 2
    /\ data[1] = last.arg
    /\ types[1] = last.T

\* C7 as stated, per call: remove(v) for a value v of type T removes exactly
\* the first slot whose discriminator is T and whose stored value equals v;
\* when no slot matches, values and discriminators are unchanged.
RemoveStep ==
    LET c == last'
        hits == MatchesFrom(This, c.arg, 0)
    IN c.op = "remove" =>
          IF hits = {}
          THEN UNCHANGED <<data, types>>
          ELSE /\ data' = VecErase(data, MinOf(hits))
               /\ types' = VecErase(types, MinOf(hits))

\* C7: every remove(v) step removes exactly the first slot whose
\* discriminator is T and whose value equals v, and changes nothing when no
\* slot matches.
C7_Original == [][RemoveStep]_vars

\* C8, per call: insert(index, value).
InsertStep ==
    LET c == last'
        n == Len(data)
        i == c.index
    IN c.op = "insert" =>
          /\ c.err = NoError
          /\ IF i <= n
             THEN /\ Len(data') = n + 1
                  /\ Len(types') = n + 1
                  /\ data'[i + 1] = c.arg
                  /\ types'[i + 1] = c.T
                  /\ \A j \in 0..(i - 1) :
                        data'[j + 1] = data[j + 1] /\ types'[j + 1] = types[j + 1]
                  /\ \A j \in i..(n - 1) :
                        data'[j + 2] = data[j + 1] /\ types'[j + 2] = types[j + 1]
             ELSE UNCHANGED <<data, types>>

\* C8: insert(index, value) with 0 <= index <= size() places the value and
\* its discriminator at position index, shifts the slots formerly at
\* positions >= index up by one and increases size() by one; insert with
\* index > size() is silently ignored: no error, and values, discriminators
\* and size() are unchanged.
C8_Insert == [][InsertStep]_vars

\* An insert past the end of a non-empty list has been ignored.
C8_Witness ==
    /\ last.op = "insert"
    /\ last.index > Len(data)
    /\ last.err = NoError
    /\ Len(data) = 1

\* C9, per call: append<T>(v) and count.  count<std::any> does not exist
\* (std::any has no ==), so an append<std::any> changes no count.
AppendCountStep ==
    LET c == last'
    IN c.op = "append" =>
          \A w \in TypedVals :
              CountOf(ThisNext, w.ty, w) =
                  CountOf(This, w.ty, w) + (IF c.T = w.ty /\ c.arg = w THEN 1 ELSE 0)

\* C9: for every list state and every value v of type T, count(v) after
\* append(v) is exactly one greater than count(v) before the append, and the
\* count of every other (type, value) pair is unchanged by the append.
C9_AppendCount == [][AppendCountStep]_vars

\* append(v) has made count(v) two, on a list that held a matching slot.
C9_Witness ==
    /\ last.op = "append"
    /\ last.T = last.arg.ty
    /\ CountOf(This, last.T, last.arg) = 2

\* C10, per call: one reverse().
ReverseStep ==
    LET c == last'
        n == Len(data)
    IN c.op = "reverse" =>
          /\ Len(data') = n
          /\ Len(types') = n
          /\ \A i \in 0..(n - 1) :
                /\ data'[n - 1 - i + 1] = data[i + 1]
                /\ types'[n - 1 - i + 1] = types[i + 1]

\* C10: applying reverse() twice restores the original order of both the
\* values and the discriminators; a single reverse() puts the slot formerly
\* at position i at position size() - 1 - i with its own discriminator.
C10_Reverse ==
    /\ [](ReverseList(ReverseList(This)) = This)
    /\ [][ReverseStep]_vars

\* A reverse() has exchanged two slots of different values and discriminators.
C10_Witness ==
    /\ last.op = "reverse"
    /\ Len(data) = 2
    /\ data[1] # data[2]
    /\ types[1] # types[2]

\* C11, the queries: in the state an index or a count has returned in, the
\* slot index reports has discriminator T, and count counts no more slots
\* than there are slots of discriminator T holding v.
SearchQualified ==
    /\ (last.op = "index" /\ last.err = NoError) =>
          /\ last.retn < Len(data)
          /\ types[last.retn + 1] = last.T
    /\ last.op = "count" =>
          last.retn = Cardinality(MatchesFrom(This, last.arg, 0))

\* C11, per call: the slot a remove<T>(v) erases (last'.index is the position
\* its find_if found, size() when it found none) has discriminator T.
RemoveQualifiedStep ==
    LET c == last'
    IN (c.op = "remove" /\ c.index < Len(data)) => types[c.index + 1] = c.T

\* C11 as stated: the searches are type-qualified: for a value v of type T,
\* count(v), index(v) and remove(v) never match a slot whose discriminator is
\* a type other than T, even when the stored value is numerically equal.
C11_Original == []SearchQualified /\ [][RemoveQualifiedStep]_vars

\* C15 as stated: after any sequence of List operations, including writes
\* through operator[], the discriminator of slot i is the dynamic type of the
\* value stored in slot i.  (Stated here for the slots that hold a value and
\* were not added as a std::any, whose discriminator names std::any itself.)
C15_Original ==
    \A k \in 1..Len(data) :
        (k <= Len(types) /\ types[k] # "std::any" /\ HasValue(data[k])) =>
            data[k].ty = types[k]

\* C12, per call: open(name, mode) on the path as it is before the call.
OpenStep ==
    LET c == fcall'
        reading == c.method \in {"r", "r+"}
    IN c.op = "open" =>
          IF reading /\ ~fs.exists
          THEN c.err = FileNotExistError /\ ~c.native
          ELSE IF reading /\ ~(fs.readable /\ fs.writable)
          THEN c.err = FilePermissionError /\ ~c.native
          ELSE /\ c.native
               /\ c.err = (IF c.nerr # 0 THEN FileUnknownError ELSE NoError)
               /\ (~reading /\ ~fs.exists /\ c.method \notin {"w", "w+", "a", "a+"})
                     => c.err = FileUnknownError

\* C12: open(name, mode) with a read-oriented mode ("r" or "r+") on a
\* nonexistent path fails with FileNotFound, and on an existing path lacking
\* read+write permission fails with PermissionDenied, in both cases before
\* any native open call is attempted; for every other mode no pre-check is
\* made and a failing native open yields UnknownOpenError.
C12_Open == [][OpenStep]_vars

\* open(name, "r") on a missing path has thrown FileNotExistError and has
\* not called fopen_s.
C12_Witness ==
    /\ fcall.op = "open"
    /\ fcall.method = "r"
    /\ fcall.err = FileNotExistError
    /\ ~fcall.native
    /\ ~fs.exists

\* C13 as stated: destruction closes the native handle if and only if it is
\* still open, so once a File is destroyed, after any close() calls, its
\* handle has been closed exactly once.
C13_Original == fobj.state = "destroyed" => (fobj.fcloses = 1 /\ ~fobj.ub)

\* C14 as stated: every String instance, however produced (default
\* construction, construction from a C string or a null pointer, copy
\* construction, assignment, upper(), lower(), operator+), owns a non-null
\* character buffer whose element at position len() is the terminator, so
\* that no copy, concatenation or search reads through a null pointer.
C14_Original ==
    /\ ~sfault
    /\ \A i \in StringIds :
          /\ ~strs[i].data.null
          /\ Len(strs[i].data.buf) = strs[i].length + 1
          /\ strs[i].data.buf[strs[i].length + 1] = NUL
=============================================================================
